---- MODULE Spec2Model ----
(***************************************************************************)
(* Model of compartment.py: the vectorized ODE solver build_odeint_batch,  *)
(* the drivers CompartmentModel.run / _run_static / _run_time_varying /    *)
(* run_batch, and the SIR derivative.                                      *)
(*                                                                         *)
(* Arrays are records [shape, data] with row-major flat data, as in numpy, *)
(* so that ravel / reshape keep the data and only transposition, slicing   *)
(* and broadcasting move it.  Numbers are integers plus the non-finite     *)
(* value NaN (division by a zero population).  The adaptive integrator of  *)
(* jax.experimental.ode is modelled by its interface: the state at every   *)
(* queried time, obtained by a deterministic one-step map applied once per *)
(* unit of time, with parameters held constant during a call.              *)
(***************************************************************************)
EXTENDS Integers, Sequences, FiniteSets, TLC

\* ---------------------------------------------------------------- bounds
MaxT == 3
MaxBatch == 2
MaxGrid == 3

\* ------------------------------------------------------- number arithmetic
NaN == -999999

NNeg(a) == IF a = NaN THEN NaN ELSE 0 - a

NAdd(a, b) == IF a = NaN \/ b = NaN THEN NaN ELSE a + b

NSub(a, b) == IF a = NaN \/ b = NaN THEN NaN ELSE a - b

NMul(a, b) == IF a = NaN \/ b = NaN THEN NaN ELSE a * b

\* Float division rounds symmetrically in the sign: (-a)/b = -(a/b).
\* 0/0 is NaN; the only zero denominator a run can meet is N = 0 with
\* S = I = R = 0, so x/0 with x # 0 (an infinity) never occurs.
NDiv(a, b) ==
    IF a = NaN \/ b = NaN \/ b = 0 THEN NaN
    ELSE LET abs(v) == IF v < 0 THEN 0 - v ELSE v
             q == abs(a) \div abs(b)
         IN IF (a < 0) = (b < 0) THEN q ELSE 0 - q

\* ------------------------------------------------------------------ arrays
RECURSIVE Prod(_)
Prod(shape) == IF shape = <<>> THEN 1 ELSE Head(shape) * Prod(Tail(shape))

Reverse(s) == [i \in 1..Len(s) |-> s[Len(s) + 1 - i]]

\* zero-based flat index -> zero-based multi-index (row-major)
RECURSIVE Unravel(_, _)
Unravel(f, shape) ==
    IF shape = <<>> THEN <<>>
    ELSE LET n == Len(shape)
             last == shape[n]
         IN Append(Unravel(f \div last, SubSeq(shape, 1, n - 1)), f % last)

\* zero-based multi-index -> zero-based flat index (row-major)
RECURSIVE Ravel(_, _)
Ravel(idx, shape) ==
    IF shape = <<>> THEN 0
    ELSE LET n == Len(shape)
         IN Ravel(SubSeq(idx, 1, n - 1), SubSeq(shape, 1, n - 1)) * shape[n] + idx[n]

Arr(shape, data) == [shape |-> shape, data |-> data]

Scalar(v) == Arr(<<>>, <<v>>)

ndim(a) == Len(a.shape)

\* variant: an axis of extent 1 is not repeated
CanBroadcast_exact(ashape, shape) ==
    /\ \A j \in 1..Len(shape) : shape[j] >= 0
    /\ Len(ashape) <= Len(shape)
    /\ \A j \in 1..Len(ashape) : ashape[j] = shape[Len(shape) - Len(ashape) + j]

\* numpy / jax.numpy broadcast_to: trailing axes are aligned, an axis of
\* extent 1 is repeated, every other axis must match; a negative target
\* extent is an error.
CanBroadcast(ashape, shape) ==
    /\ \A j \in 1..Len(shape) : shape[j] >= 0
    /\ Len(ashape) <= Len(shape)
    /\ \A j \in 1..Len(ashape) :
          LET tj == shape[Len(shape) - Len(ashape) + j]
          IN ashape[j] = tj \/ ashape[j] = 1

broadcast_to(a, shape) ==
    LET nlead == Len(shape) - ndim(a)
        src(f) == LET tgt == Unravel(f, shape)
                      idx == [j \in 1..ndim(a) |->
                                 IF a.shape[j] = 1 THEN 0 ELSE tgt[nlead + j]]
                  IN Ravel(idx, a.shape)
    IN Arr(shape, [f \in 1..Prod(shape) |-> a.data[src(f - 1) + 1]])

\* a.T : reverse the axes
transpose(a) ==
    LET shape == Reverse(a.shape)
    IN Arr(shape, [f \in 1..Prod(shape) |->
                      a.data[Ravel(Reverse(Unravel(f - 1, shape)), a.shape) + 1]])

\* a.swapaxes(0, 1) of an array with at least two axes
swapaxes01(a) ==
    LET sw(s) == [j \in 1..Len(s) |-> IF j = 1 THEN s[2] ELSE IF j = 2 THEN s[1] ELSE s[j]]
        shape == sw(a.shape)
    IN Arr(shape, [f \in 1..Prod(shape) |->
                      a.data[Ravel(sw(Unravel(f - 1, shape)), a.shape) + 1]])

\* a[i] along the leading axis (i zero-based)
Row(a, i) ==
    LET sub == Tail(a.shape)
        n == Prod(sub)
    IN Arr(sub, SubSeq(a.data, i * n + 1, (i + 1) * n))

ravel(a) == Arr(<<Len(a.data)>>, a.data)

reshape(a, shape) == Arr(shape, a.data)

RECURSIVE Concat(_)
Concat(seqs) == IF seqs = <<>> THEN <<>> ELSE Head(seqs) \o Concat(Tail(seqs))

\* stack arrays of shape sub along a new leading axis
stack(rows, sub) == Arr(<<Len(rows)>> \o sub, Concat([i \in 1..Len(rows) |-> rows[i].data]))

\* np.vstack((x0, X)) with x0 of shape (d,) and X of shape (n, d)
vstack(x, X) == Arr(<<X.shape[1] + 1, X.shape[2]>>, x.data \o X.data)

\* variant: a[:, 0, :]
first_time_slice(a) ==
    LET b == a.shape[1]
        d == a.shape[3]
    IN Arr(<<b, d>>, [f \in 1..(b * d) |->
                         a.data[Ravel(<<(f - 1) \div d, 0, (f - 1) % d>>, a.shape) + 1]])

\* a[:, -1, :] of an array of shape (b, n, d), n >= 1
last_time_slice(a) ==
    LET b == a.shape[1]
        n == a.shape[2]
        d == a.shape[3]
    IN Arr(<<b, d>>, [f \in 1..(b * d) |->
                         a.data[Ravel(<<(f - 1) \div d, n - 1, (f - 1) % d>>, a.shape) + 1]])

\* variant: np.concatenate((X, x0[:, None, :]), axis=1)
concat_time_x0_last(x, X) ==
    LET b == x.shape[1]
        d == x.shape[2]
        n == X.shape[2]
        shape == <<b, n + 1, d>>
        at(f) == LET idx == Unravel(f, shape)
                 IN IF idx[2] = n THEN x.data[Ravel(<<idx[1], idx[3]>>, x.shape) + 1]
                    ELSE X.data[Ravel(<<idx[1], idx[2], idx[3]>>, X.shape) + 1]
    IN Arr(shape, [f \in 1..Prod(shape) |-> at(f - 1)])

\* np.concatenate((x0[:, None, :], X), axis=1), x0 (b, d), X (b, n, d)
concat_time(x, X) ==
    LET b == x.shape[1]
        d == x.shape[2]
        n == X.shape[2]
        shape == <<b, n + 1, d>>
        at(f) == LET idx == Unravel(f, shape)
                 IN IF idx[2] = 0 THEN x.data[Ravel(<<idx[1], idx[3]>>, x.shape) + 1]
                    ELSE X.data[Ravel(<<idx[1], idx[2] - 1, idx[3]>>, X.shape) + 1]
    IN Arr(shape, [f \in 1..Prod(shape) |-> at(f - 1)])

\* np.arange(T)
arange(T) == Arr(<<IF T < 0 THEN 0 ELSE T>>, [i \in 1..T |-> i - 1])

t_one_step == Arr(<<2>>, <<0, 1>>)

\* ------------------------------------------------------------- SIR model
\* SIRModel.seed(N, I)
seed(N, I) == Arr(<<4>>, <<N - I, I, 0, I>>)

\* variant: the recovery term of dI_dt is dropped
dx_dt_no_recovery(x, t, args) ==
    LET beta == args[1].data[1]
        gamma == args[2].data[1]
        S == x.data[1]
        I == x.data[2]
        R == x.data[3]
        N == NAdd(NAdd(S, I), R)
        dS_dt == NDiv(NMul(NMul(NNeg(beta), S), I), N)
        dI_dt == NDiv(NMul(NMul(beta, S), I), N)
        dR_dt == NMul(gamma, I)
        dC_dt == NDiv(NMul(NMul(beta, S), I), N)
    IN Arr(<<4>>, <<dS_dt, dI_dt, dR_dt, dC_dt>>)

\* SIRModel.dx_dt(x, t, beta, gamma); args = <<beta, gamma>> as 0-d arrays
dx_dt(x, t, args) ==
    LET beta == args[1].data[1]
        gamma == args[2].data[1]
        S == x.data[1]
        I == x.data[2]
        R == x.data[3]
        N == NAdd(NAdd(S, I), R)
        dS_dt == NDiv(NMul(NMul(NNeg(beta), S), I), N)
        dI_dt == NSub(NDiv(NMul(NMul(beta, S), I), N), NMul(gamma, I))
        dR_dt == NMul(gamma, I)
        dC_dt == NDiv(NMul(NMul(beta, S), I), N)
    IN Arr(<<4>>, <<dS_dt, dI_dt, dR_dt, dC_dt>>)

\* variant: the parameters are not mapped over the batch axis
\* (in_axes None), every row gets the parameters of instance 0
dx_dt_batch_shared(x, t, args) ==
    LET batch_sz == args[1].shape[1]
        x2 == reshape(x, <<batch_sz, Len(x.data) \div batch_sz>>)
        d == [i \in 1..batch_sz |->
                 dx_dt(Row(x2, i - 1), t,
                       [p \in 1..Len(args) |-> Scalar(args[p].data[1])])]
    IN ravel(stack(d, <<4>>))

\* build_odeint_batch.dx_dt_batch(x, t, *args): x flat (batch_sz * d,),
\* every arg of shape (batch_sz,)
dx_dt_batch(x, t, args) ==
    LET batch_sz == args[1].shape[1]
        x2 == reshape(x, <<batch_sz, Len(x.data) \div batch_sz>>)
        d == [i \in 1..batch_sz |->
                 dx_dt(Row(x2, i - 1), t,
                       [p \in 1..Len(args) |-> Scalar(args[p].data[i])])]
    IN ravel(stack(d, <<4>>))

\* ------------------------------------------------------------ integrator
Deriv(fn, y, t, args) ==
    IF fn = "dx_dt" THEN dx_dt(y, t, args) ELSE dx_dt_batch(y, t, args)

\* state one unit of time later, parameters constant
UnitStep(fn, y, t, args) ==
    LET dy == Deriv(fn, y, t, args)
    IN Arr(y.shape, [i \in 1..Len(y.data) |-> NAdd(y.data[i], dy.data[i])])

RECURSIVE Flow(_, _, _, _, _)
Flow(fn, y, t0, t1, args) ==
    IF t0 >= t1 THEN y ELSE Flow(fn, UnitStep(fn, y, t0, args), t0 + 1, t1, args)

\* the solution at the grid points t[i..], given the state y at t[i]
RECURSIVE Solution(_, _, _, _, _)
Solution(fn, y, t, args, i) ==
    IF i > t.shape[1] THEN <<>>
    ELSE IF i = t.shape[1] THEN <<y>>
    ELSE <<y>> \o Solution(fn, Flow(fn, y, t.data[i], t.data[i + 1], args), t, args, i + 1)

\* build_odeint(fn, ...)(y0, t, *args) -> array of shape (len(t), len(y0))
ode(fn, y0, t, args) == stack(Solution(fn, y0, t, args, 1), y0.shape)

\* self.odeint = build_odeint(self.dx_dt, ...)
odeint(x0, t, args) == ode("dx_dt", x0, t, args)

\* variant: the raw (T, batch_sz, d) result is reshaped to
\* (batch_sz, T, d) without swapping the axes
odeint_batch_noswap(x0, t, args) ==
    LET batch_sz == x0.shape[1]
        d == x0.shape[2]
        x == ode("dx_dt_batch", ravel(x0), t, args)
    IN reshape(x, <<batch_sz, t.shape[1], d>>)

\* build_odeint_batch.odeint_batch(x0, t, *args)
odeint_batch(x0, t, args) ==
    LET batch_sz == x0.shape[1]
        d == x0.shape[2]
        x == ode("dx_dt_batch", ravel(x0), t, args)
    IN swapaxes01(reshape(x, <<t.shape[1], batch_sz, d>>))

batch_odeint(x0, t, args) == odeint_batch(x0, t, args)

\* ---------------------------------------------------------------- inputs
ParamMod == 3

\* an array of the given shape whose entry at (i, k, ...) is
\* (c[1] + c[2] * i + c[3] * k) mod ParamMod
Gen(shape, c) ==
    LET val(f) == LET idx == Unravel(f, shape)
                      i == IF Len(idx) >= 1 THEN idx[1] ELSE 0
                      k == IF Len(idx) >= 2 THEN idx[2] ELSE 0
                  IN (c[1] + c[2] * i + c[3] * k) % ParamMod
    IN Arr(shape, [f \in 1..Prod(shape) |-> val(f - 1)])

BetaCoefs == {<<1, 0, 0>>, <<0, 1, 1>>}

GammaCoefs == {<<1, 0, 0>>, <<2, 1, 1>>}

\* initial states: two seeded populations and the empty population
X0Pool == <<seed(100, 10), seed(50, 20), seed(0, 0)>>

\* batch of initial states, row i = X0Pool[start + stride * i]
X0Batch(b, start, stride) ==
    stack([i \in 1..b |-> X0Pool[((start + stride * (i - 1)) % Len(X0Pool)) + 1]], <<4>>)

\* copies of the first or of the last initial state of the pool, or
\* consecutive initial states
X0Batches(b) == {X0Batch(b, 0, 0), X0Batch(b, Len(X0Pool) - 1, 0), X0Batch(b, 0, 1)}

\* both entries of one shape, or the first entry of the shape lead
ShapePairs(shapes, lead) == {<<s, s>> : s \in shapes} \cup {<<lead, s>> : s \in shapes}

Thetas(pairs) ==
    {<<Gen(sp[1], c1), Gen(sp[2], c2)>> : sp \in pairs, c1 \in BetaCoefs, c2 \in GammaCoefs}

\* theta entries offered to run: scalar, length 1, length T-1, length T+1
RunShapes(T_) ==
    ShapePairs({<<>>, <<1>>, <<T_ + 1>>} \cup (IF T_ >= 1 THEN {<<T_ - 1>>} ELSE {}), <<>>)

\* theta entries offered to run_batch
BatchShapes(T_, b) ==
    ShapePairs({<<>>, <<1>>, <<b>>, <<b + 1>>}
                  \cup (IF T_ >= 1 THEN {<<b, T_ - 1>>} ELSE {}), <<b>>)

\* time grids offered to odeint_batch: unit spaced and doubly spaced
Grids == {arange(n) : n \in 1..MaxGrid}
            \cup {Arr(<<n>>, [i \in 1..n |-> 2 * (i - 1)]) : n \in 2..MaxGrid}

\* ----------------------------------------------------------------- state
VARIABLES pc, op, T, x0, theta, xs, carry, Xs, log, ret

vars == <<pc, op, T, x0, theta, xs, carry, Xs, log, ret>>

Empty == Arr(<<0>>, <<>>)

Init ==
    /\ pc = "idle"
    /\ op = "none"
    /\ T = 0
    /\ x0 = Empty
    /\ theta = <<>>
    /\ xs = <<>>
    /\ carry = Empty
    /\ Xs = <<>>
    /\ log = <<>>
    /\ ret = Empty

Call(fn, y0, t, args, out) == [fn |-> fn, y0 |-> y0, t |-> t, args |-> args, out |-> out]

\* CompartmentModel.run: is_scalar = [np.ndim(a)==0 for a in theta]
is_scalar(th) == [p \in 1..Len(th) |-> ndim(th[p]) = 0]

\* variant: np.any instead of np.all
any_scalar(th) == \E p \in 1..Len(th) : is_scalar(th)[p]

all_scalar(th) == \A p \in 1..Len(th) : is_scalar(th)[p]

\* variant: the time grid has one point too many
run_static_value_long(T_, x_, th) == odeint(x_, arange(T_ + 1), th)

\* CompartmentModel._run_static
run_static_value(T_, x_, th) == odeint(x_, arange(T_), th)

Enter(name, T_, x_, th) ==
    /\ pc = "idle"
    /\ op' = name
    /\ T' = T_
    /\ x0' = x_
    /\ theta' = th

\* run, constant-parameter path, T >= 1
RunStatic ==
    \E T_ \in 1..MaxT, i \in 1..Len(X0Pool) : \E th \in Thetas(RunShapes(T_)) :
        /\ all_scalar(th)
        /\ Enter("run", T_, X0Pool[i], th)
        /\ LET out == run_static_value(T_, X0Pool[i], th)
           IN /\ log' = <<Call("odeint", X0Pool[i], arange(T_), th, out)>>
              /\ ret' = out
        /\ pc' = "returned"
        /\ UNCHANGED <<xs, carry, Xs>>

\* run, constant-parameter path, T = 0: the integrator is handed an empty
\* time grid; it either fails or returns the empty (0, d) solution
RunStaticEmptyGrid ==
    \E i \in 1..Len(X0Pool) : \E th \in Thetas(RunShapes(0)) :
        /\ all_scalar(th)
        /\ Enter("run", 0, X0Pool[i], th)
        /\ log' = <<Call("odeint", X0Pool[i], arange(0), th, Arr(<<0, 4>>, <<>>))>>
        /\ \/ pc' = "returned" /\ ret' = Arr(<<0, 4>>, <<>>)
           \/ pc' = "raised" /\ ret' = Empty
        /\ UNCHANGED <<xs, carry, Xs>>

\* run, time-varying path up to the start of the scan
RunTimeVarying ==
    \E T_ \in 0..MaxT, i \in 1..Len(X0Pool) : \E th \in Thetas(RunShapes(T_)) :
        /\ ~all_scalar(th)
        /\ Enter("run", T_, X0Pool[i], th)
        /\ IF \A p \in 1..Len(th) : CanBroadcast(th[p].shape, <<T_ - 1>>)
           THEN /\ xs' = [p \in 1..Len(th) |-> broadcast_to(th[p], <<T_ - 1>>)]
                /\ carry' = X0Pool[i]
                /\ pc' = "scan"
           ELSE /\ pc' = "raised"
                /\ UNCHANGED <<xs, carry>>
        /\ UNCHANGED <<Xs, log, ret>>

\* variant: every step gets the first slice
scan_slice_first(xs_, k) == [p \in 1..Len(xs_) |-> Row(xs_[p], 0)]

\* the k-th slice jax.lax.scan hands to its body (k zero-based)
scan_slice(xs_, k) == [p \in 1..Len(xs_) |-> Row(xs_[p], k)]

\* variant: x1 = self.odeint(...)[0]
advance_row0(c, th) == Row(odeint(c, t_one_step, th), 0)

\* _run_time_varying.advance(x0, theta): x1 = self.odeint(...)[1]
advance(c, th) == Row(odeint(c, t_one_step, th), 1)

\* one iteration of jax.lax.scan(advance, x0, theta, T-1)
ScanStep ==
    /\ pc = "scan"
    /\ Len(Xs) < T - 1
    /\ LET th == scan_slice(xs, Len(Xs))
           x1 == advance(carry, th)
       IN /\ carry' = x1
          /\ Xs' = Append(Xs, x1)
          /\ log' = Append(log, Call("odeint", carry, t_one_step, th,
                                     odeint(carry, t_one_step, th)))
    /\ UNCHANGED <<pc, op, T, x0, theta, xs, ret>>

\* return np.vstack((x0, X))
ScanReturn ==
    /\ pc = "scan"
    /\ Len(Xs) = T - 1
    /\ ret' = vstack(x0, stack(Xs, <<4>>))
    /\ pc' = "returned"
    /\ UNCHANGED <<op, T, x0, theta, xs, carry, Xs, log>>

\* run_batch.expand_and_transpose
expand_and_transpose(a, T_, batch_sz) == broadcast_to(transpose(a), <<T_ - 1, batch_sz>>)

can_expand(a, T_, batch_sz) == CanBroadcast(Reverse(a.shape), <<T_ - 1, batch_sz>>)

\* run_batch up to the start of the scan
RunBatch ==
    \E T_ \in 0..MaxT, b \in 1..MaxBatch :
      \E x_ \in X0Batches(b), th \in Thetas(BatchShapes(T_, b)) :
        /\ Enter("run_batch", T_, x_, th)
        /\ IF \A p \in 1..Len(th) : can_expand(th[p], T_, b)
           THEN /\ xs' = [p \in 1..Len(th) |-> expand_and_transpose(th[p], T_, b)]
                /\ carry' = x_
                /\ pc' = "batch_scan"
           ELSE /\ pc' = "raised"
                /\ UNCHANGED <<xs, carry>>
        /\ UNCHANGED <<Xs, log, ret>>

\* run_batch.advance(x0, theta): x1 = self.batch_odeint(...)[:,-1,:]
advance_batch(c, th) == last_time_slice(batch_odeint(c, t_one_step, th))

BatchScanStep ==
    /\ pc = "batch_scan"
    /\ Len(Xs) < T - 1
    /\ LET th == scan_slice(xs, Len(Xs))
           x1 == advance_batch(carry, th)
       IN /\ carry' = x1
          /\ Xs' = Append(Xs, x1)
          /\ log' = Append(log, Call("batch_odeint", carry, t_one_step, th,
                                     batch_odeint(carry, t_one_step, th)))
    /\ UNCHANGED <<pc, op, T, x0, theta, xs, ret>>

\* X.swapaxes(0, 1), then concatenate with x0[:, None, :]
BatchScanReturn ==
    /\ pc = "batch_scan"
    /\ Len(Xs) = T - 1
    /\ ret' = concat_time(x0, swapaxes01(stack(Xs, x0.shape)))
    /\ pc' = "returned"
    /\ UNCHANGED <<op, T, x0, theta, xs, carry, Xs, log>>

\* the outputs collected by jax.lax.scan(advance, c, xs_, n) from step k on
RECURSIVE batch_scan(_, _, _, _)
batch_scan(c, xs_, k, n) ==
    IF k >= n THEN <<>>
    ELSE LET x1 == advance_batch(c, scan_slice(xs_, k))
         IN <<x1>> \o batch_scan(x1, xs_, k + 1, n)

\* the value run_batch(T, x0, theta) returns when theta can be expanded
run_batch_value(T_, x_, th) ==
    LET b == x_.shape[1]
        e == [p \in 1..Len(th) |-> expand_and_transpose(th[p], T_, b)]
    IN concat_time(x_, swapaxes01(stack(batch_scan(x_, e, 0, T_ - 1), x_.shape)))

\* a direct call of the batch integrator built by build_odeint_batch
OdeintBatch ==
    \E b \in 1..MaxBatch, t \in Grids :
      \E x_ \in X0Batches(b), th \in Thetas({<<<<b>>, <<b>>>>}) :
        /\ Enter("odeint_batch", t.shape[1], x_, th)
        /\ xs' = <<t>>
        /\ LET out == odeint_batch(x_, t, th)
           IN /\ ret' = out
              /\ log' = <<Call("batch_odeint", x_, t, th, out)>>
        /\ pc' = "returned"
        /\ UNCHANGED <<carry, Xs>>

\* the call is over; the model keeps nothing between calls
Reset ==
    /\ pc \in {"returned", "raised"}
    /\ pc' = "idle"
    /\ op' = "none"
    /\ T' = 0
    /\ x0' = Empty
    /\ theta' = <<>>
    /\ xs' = <<>>
    /\ carry' = Empty
    /\ Xs' = <<>>
    /\ log' = <<>>
    /\ ret' = Empty

Next ==
    \/ RunStatic
    \/ RunStaticEmptyGrid
    \/ RunTimeVarying
    \/ ScanStep
    \/ ScanReturn
    \/ RunBatch
    \/ BatchScanStep
    \/ BatchScanReturn
    \/ OdeintBatch
    \/ Reset

Spec == Init /\ [][Next]_vars

TypeOK == pc \in {"idle", "scan", "batch_scan", "returned", "raised"}

\* ------------------------------------------------------------ properties
Params == 1..Len(theta)

BatchSz == x0.shape[1]

\* the parameters of one scalar integration: entry p contributes v[p]
Scalars(v) == [p \in 1..Len(v) |-> Scalar(v[p])]

\* C1: for T >= 2 and theta entries all of length T-1, run returns X with
\* X[0] = x0 and X[k+1] = the end state of one integration over [0, 1]
\* started from X[k] with the k-th value of every theta entry.
C1_TimeVaryingChain ==
    (pc = "returned" /\ op = "run" /\ T >= 2
        /\ \A p \in Params : theta[p].shape = <<T - 1>>)
    => /\ ret.shape = <<T, 4>>
       /\ Row(ret, 0) = x0
       /\ \A k \in 0..(T - 2) :
             Row(ret, k + 1) =
                Row(odeint(Row(ret, k), t_one_step,
                           Scalars([p \in Params |-> theta[p].data[k + 1]])), 1)

C1_Witness ==
    /\ pc = "returned" /\ op = "run" /\ T >= 3
    /\ \A p \in Params : theta[p].shape = <<T - 1>>
    /\ theta[1].data[1] # theta[1].data[2]
    /\ Row(ret, 1) # Row(ret, 0)
    /\ Row(ret, 2) # Row(ret, 1)

\* a theta tuple of run that mixes scalar and per-step entries
Mixed ==
    /\ op = "run"
    /\ \E p \in Params : ndim(theta[p]) = 0
    /\ \E p \in Params : ndim(theta[p]) >= 1

\* a theta entry of run_batch whose batch extent differs from that of x0
BatchMismatch ==
    /\ op = "run_batch"
    /\ \E p \in Params : ndim(theta[p]) >= 1 /\ theta[p].shape[1] # BatchSz

Unbroadcastable ==
    \/ /\ op = "run"
       /\ \E p \in Params : ndim(theta[p]) >= 1
       /\ \/ T < 1
          \/ \E p \in Params :
                \/ ndim(theta[p]) > 1
                \/ ndim(theta[p]) = 1 /\ theta[p].shape[1] \notin {1, T - 1}
    \/ /\ op = "run_batch"
       /\ \/ T < 1
          \/ \E p \in Params :
                \/ ndim(theta[p]) >= 1 /\ theta[p].shape[1] \notin {1, BatchSz}
                \/ ndim(theta[p]) = 2 /\ theta[p].shape[2] \notin {1, T - 1}

C3_NoIntegratorCall ==
    (pc = "returned" /\ op = "run" /\ T = 1)
    => (ret = Arr(<<1, 4>>, x0.data) /\ log = <<>>)

\* C3 amended: for T = 1 run returns exactly [x0]; the time-varying path
\* makes no integrator call, the constant-parameter path makes one call
\* over the one-point grid [0], which advances no time.
C3_OneRowTrajectory ==
    (pc = "returned" /\ op = "run" /\ T = 1)
    => /\ ret = Arr(<<1, 4>>, x0.data)
       /\ IF \A p \in Params : ndim(theta[p]) = 0
          THEN Len(log) = 1 /\ log[1].t = Arr(<<1>>, <<0>>) /\ log[1].out = ret
          ELSE log = <<>>

C3_Witness ==
    /\ pc = "returned" /\ op = "run" /\ T = 1
    /\ \A p \in Params : ndim(theta[p]) = 0
    /\ Len(log) = 1
    /\ x0.data[2] > 0 /\ theta[1].data[1] > 0

\* C4: the first state of every trajectory run and run_batch return is the
\* supplied initial state, for every batch member.
C4_FirstStateIsX0 ==
    /\ (pc = "returned" /\ op = "run" /\ T >= 1) => Row(ret, 0) = x0
    /\ (pc = "returned" /\ op = "run_batch")
          => \A i \in 0..(BatchSz - 1) : Row(Row(ret, i), 0) = Row(x0, i)

C4_Witness ==
    /\ pc = "returned" /\ op = "run_batch" /\ T >= 2 /\ BatchSz >= 2
    /\ Row(x0, 0) # Row(x0, 1)
    /\ Row(Row(ret, 1), 1) # Row(x0, 1)
    /\ Row(Row(ret, 1), 0) = Row(x0, 1)

\* a batch made of copies of one (x0, constant theta)
Replicated ==
    /\ op = "run_batch"
    /\ \A i \in 0..(BatchSz - 1) : Row(x0, i) = Row(x0, 0)
    /\ \A p \in Params :
          /\ theta[p].shape = <<BatchSz>>
          /\ \A i \in 1..BatchSz : theta[p].data[i] = theta[p].data[1]

\* C5: run_batch on B copies of (x0, constant theta) returns B identical
\* trajectories, each equal to what run returns for (x0, theta).
C5_BatchMatchesRun ==
    (pc = "returned" /\ Replicated)
    => \A i \in 0..(BatchSz - 1) :
          Row(ret, i) =
             run_static_value(T, Row(x0, 0), Scalars([p \in Params |-> theta[p].data[1]]))

C5_Witness ==
    /\ pc = "returned" /\ Replicated /\ BatchSz >= 2 /\ T >= 3
    /\ Row(Row(ret, 0), 2) # Row(Row(ret, 0), 1)
    /\ Row(Row(ret, 0), 1) # Row(x0, 0)

\* x with row j replaced by r
WithRow(x, j, r) ==
    LET d == x.shape[2]
    IN Arr(x.shape, [f \in 1..Len(x.data) |->
                        IF (f - 1) \div d = j THEN r.data[((f - 1) % d) + 1] ELSE x.data[f]])

\* a with the values of instance j shifted by s, when a has a batch axis
ShiftInstance(a, j, s) ==
    IF ndim(a) >= 1 /\ a.shape[1] = BatchSz
    THEN Arr(a.shape, [f \in 1..Len(a.data) |->
                          IF Unravel(f - 1, a.shape)[1] = j
                          THEN (a.data[f] + s) % ParamMod ELSE a.data[f]])
    ELSE a

\* changes of (beta, gamma): either one to every other value, or both
Shifts ==
    {<<s, 0>> : s \in 1..(ParamMod - 1)} \cup {<<0, s>> : s \in 1..(ParamMod - 1)}
        \cup {<<1, 1>>}

\* C6: changing the initial state or the parameters of instance j of a
\* batch does not change the trajectory run_batch returns for any other
\* instance i.
C6_BatchIndependence ==
    (pc = "returned" /\ op = "run_batch" /\ BatchSz >= 2)
    => \A j \in 0..(BatchSz - 1) :
          /\ \A sh \in Shifts :
                LET s1 == sh[1]
                    s2 == sh[2]
                    other == run_batch_value(T, x0, <<ShiftInstance(theta[1], j, s1),
                                                      ShiftInstance(theta[2], j, s2)>>)
                IN \A i \in 0..(BatchSz - 1) : i # j => Row(other, i) = Row(ret, i)
          /\ \A m \in 1..Len(X0Pool) :
                LET other == run_batch_value(T, WithRow(x0, j, X0Pool[m]), theta)
                IN \A i \in 0..(BatchSz - 1) : i # j => Row(other, i) = Row(ret, i)

C6_Witness ==
    /\ pc = "returned" /\ op = "run_batch" /\ BatchSz >= 2 /\ T >= 2
    /\ theta[1].shape = <<BatchSz>>
    /\ Row(run_batch_value(T, x0, <<ShiftInstance(theta[1], 1, 1), theta[2]>>), 1)
          # Row(ret, 1)

\* C7: run with all-scalar theta makes exactly one scalar-integrator call,
\* over the grid [0, ..., T-1] with theta, and returns its result
\* unchanged; with any non-scalar entry it takes the unit-step fold.
C7_Dispatch ==
    (pc # "idle" /\ op = "run")
    => IF \A p \in Params : ndim(theta[p]) = 0
       THEN /\ Len(log) = 1
            /\ log[1].fn = "odeint" /\ log[1].y0 = x0
            /\ log[1].t = Arr(<<T>>, [i \in 1..T |-> i - 1])
            /\ log[1].args = theta
            /\ pc = "returned" => ret = log[1].out
            /\ T >= 1 => (pc = "returned" /\ ret = odeint(x0, log[1].t, theta))
       ELSE /\ pc \in {"scan", "returned", "raised"}
            /\ \A c \in 1..Len(log) : log[c].fn = "odeint" /\ log[c].t = t_one_step
            /\ pc = "returned" => Len(log) = T - 1

C7_Witness ==
    /\ pc = "returned" /\ op = "run" /\ T >= 3
    /\ \A p \in Params : ndim(theta[p]) = 0
    /\ Len(log) = 1
    /\ Row(ret, 2) # Row(ret, 1)

\* C8: the batch integrator returns shape (batch_sz, T, d) and its slice i
\* is the integration of instance i alone with X0[i], the i-th value of
\* every parameter entry and the same time grid.
C8_BatchIntegratorRows ==
    \A c \in 1..Len(log) :
       log[c].fn = "batch_odeint"
       => LET b == log[c].y0.shape[1]
          IN /\ log[c].out.shape = <<b, log[c].t.shape[1], log[c].y0.shape[2]>>
             /\ \A i \in 0..(b - 1) :
                   Row(log[c].out, i) =
                      ode("dx_dt", Row(log[c].y0, i), log[c].t,
                          Scalars([p \in 1..Len(log[c].args) |-> log[c].args[p].data[i + 1]]))

C8_Witness ==
    /\ pc = "returned" /\ op = "odeint_batch" /\ BatchSz >= 2 /\ T >= 3
    /\ theta[1].data[1] # theta[1].data[2]
    /\ Row(x0, 0) # Row(x0, 1)
    /\ Row(ret, 0) # Row(ret, 1)
    /\ xs[1].data[2] = 2

\* S + I + R of a state
Total(x) == NAdd(NAdd(x.data[1], x.data[2]), x.data[3])

\* C9: with a positive population, S + I + R of every state run returns
\* equals S0 + I0 + R0.
C9_SIRConservation ==
    (pc = "returned" /\ op = "run" /\ Total(x0) > 0)
    => \A k \in 0..(ret.shape[1] - 1) : Total(Row(ret, k)) = Total(x0)

C9_Witness ==
    /\ pc = "returned" /\ op = "run" /\ T >= 3 /\ Total(x0) > 0
    /\ Row(ret, 2).data[3] > 0
    /\ Row(ret, 2).data[1] < x0.data[1]

\* the state instance i has at the end of the k-th batch-integrator call
EndState(c, i) == Row(Row(log[c].out, i), 1)

\* C10: run_batch makes T-1 batch-integrator calls in sequence, each over
\* [0, 1], call k starting from the end state of call k-1 (x0 for the
\* first) with the k-th per-step values of theta: a (batch_sz,) entry
\* itself, column k of a (batch_sz, T-1) entry; it returns x0 followed by
\* the T-1 end states, of shape (batch_sz, T, d).
C10_BatchFold ==
    (op = "run_batch" /\ pc \in {"batch_scan", "returned"})
    => /\ Len(log) <= T - 1
       /\ \A c \in 1..Len(log) :
             /\ log[c].fn = "batch_odeint"
             /\ log[c].t = t_one_step
             /\ log[c].y0.shape = x0.shape
             /\ \A i \in 0..(BatchSz - 1) :
                   Row(log[c].y0, i) = IF c = 1 THEN Row(x0, i) ELSE EndState(c - 1, i)
             /\ \A p \in Params :
                   /\ theta[p].shape = <<BatchSz>> => log[c].args[p] = theta[p]
                   /\ theta[p].shape = <<BatchSz, T - 1>>
                         => log[c].args[p] =
                               Arr(<<BatchSz>>,
                                   [i \in 1..BatchSz |-> theta[p].data[(i - 1) * (T - 1) + c]])
       /\ pc = "returned"
             => /\ Len(log) = T - 1
                /\ ret.shape = <<BatchSz, T, 4>>
                /\ \A i \in 0..(BatchSz - 1) :
                      /\ Row(Row(ret, i), 0) = Row(x0, i)
                      /\ \A c \in 1..(T - 1) : Row(Row(ret, i), c) = EndState(c, i)

C10_Witness ==
    /\ pc = "returned" /\ op = "run_batch" /\ T >= 3 /\ BatchSz >= 2
    /\ Len(log) = T - 1
    /\ theta[1].shape = <<BatchSz>>
    /\ theta[2].shape = <<BatchSz, T - 1>>
    /\ log[1].args[2] # log[2].args[2]

====
